---- MODULE Spec2Model ----
(***************************************************************************)
(* A model of the smart splitter of media-tools: the clip planner          *)
(* (Media.clips), the encode driver (Media.split), the process cache       *)
(* (Media.run_process), the interval pairing (Media.intervals), the        *)
(* detection parser (Media.frames), the matcher (Media.split_points), the  *)
(* nested cache (core.cache.Cache) and the batch loop                      *)
(* (SmartSplitter.split_files).                                            *)
(*                                                                         *)
(* Time is counted in quarter seconds.  Detection timestamps and the video *)
(* duration are multiples of half a second (even numbers), so that the     *)
(* average of two timestamps is again a whole number of quarter seconds    *)
(* and the Decimal arithmetic of the source is exact integer arithmetic.   *)
(***************************************************************************)
EXTENDS Integers, Sequences, FiniteSets, TLC

VARIABLES
    \* ---- clip planner (Media.clips) ----
    video_duration,     \* Media.video_duration, quarter seconds
    video_frame_count,  \* Media.video_frame_count
    split_points,       \* Media.split_points (the cached list of SplitMetadata)
    plan,               \* the list `clips` of Media.split, <<>> before planning
    planned,            \* TRUE once Media.clips has returned
    \* ---- output directory (the file system) ----
    media_id,           \* content of <output>/.media, "none" when the file is absent
    final,              \* final[n]: the clip file <n><ext>
    incomplete,         \* incomplete[n]: the file <n><ext>.incomplete
    cache_files,        \* cache_files[key]: <output>/cache/<key>.txt
    manifest,           \* content of <output>/info.yaml, NoFile when absent
    \* ---- batch loop and encode driver ----
    batch,              \* media_files of SmartSplitter.split_files (basenames)
    file_index,         \* position of the loop over media_files, from 1
    pc,                 \* where the run is
    dry_run,            \* config.dry_run
    handlers,           \* logging handlers added since old_handlers was taken
    clip_index,         \* clip_index of Media.split, from 0
    info,               \* the dict `info` of Media.split
    proc,               \* the transcoder child process and its two stream readers
    stats,              \* what the run of the current file has done so far
    start_final,        \* final, as it was when the current file began
    start_incomplete,   \* incomplete, as it was when the current file began
    outcomes,           \* how each file of the batch ended, in order
    \* ---- calls of Media.run_process ----
    tool_output,        \* the bytes the external tool writes to its stdout
    calls,              \* number of calls of Media.run_process made so far
    last_call,          \* the last call: its key, the cache file before it, its result
    \* ---- interval pairing (Media.intervals) ----
    detect_frames,      \* detect_frames[kind]: Media.black_frames / Media.silent_frames
    interval_cache,     \* interval_cache[kind]: self.cache["<kind>_intervals"], None when unset
    pairing,            \* pairing[kind]: calls of Media.intervals so far, and how the last ended
    \* ---- detection parser (Media.frames) ----
    ffmpeg_output,      \* Media.ffmpeg_output: the analysis output, a list of lines of characters
    frames_cache,       \* self.cache["frames"], None when unset
    parse_raised,       \* Media.frames raised ValueError
    \* ---- matcher (Media.split_points) ----
    black_list,         \* Media.black_intervals
    silent_list,        \* Media.silent_intervals
    match_result,       \* what Media.split_points built, None before it ran
    cut_frames,         \* the start frame of each split point, None before it is computed
    \* ---- nested cache (core.cache.Cache) ----
    cache_data,         \* the dict of the Cache and all it holds
    access,             \* the last operation on the Cache and how it ended
    accesses            \* number of operations made on the Cache so far

planVars == <<video_duration, video_frame_count, split_points, plan, planned>>

fsVars == <<media_id, final, incomplete, cache_files, manifest>>

runVars == <<batch, file_index, pc, dry_run, handlers, clip_index, info, proc, stats,
             start_final, start_incomplete, outcomes>>

callVars == <<tool_output, calls, last_call>>

pairVars == <<detect_frames, interval_cache, pairing>>

parseVars == <<ffmpeg_output, frames_cache, parse_raised>>

matchVars == <<black_list, silent_list, match_result, cut_frames>>

storeVars == <<cache_data, access, accesses>>

vars == <<planVars, fsVars, runVars, callVars, pairVars, parseVars, matchVars, storeVars>>

\* ---------------------------------------------------------------- bounds
MaxTime == 6        \* the video lasts MaxTime seconds; timestamps are 0 s, 1 s, ..., MaxTime s
MaxSilence == 1     \* a drawn silence interval lasts at most MaxSilence seconds
MaxSplits == 3      \* number of split points of a drawn analysis
MaxFps == 2         \* frames per second of the drawn video stream
MaxBatch == 2       \* number of media files of a batch
MaxDriverSplits == 2 \* number of split points of an analysis the encode driver is run on
MaxOutput == 2      \* length of a process output or of a cache file, in characters
MaxCalls == 2       \* number of successive calls of Media.run_process
MaxEvents == 3      \* number of start/end events of one kind in an analysis
MaxPairCalls == 2   \* number of calls of Media.intervals for one kind
MaxLines == 4       \* number of lines of a drawn analysis output
MaxLineLen == 7     \* number of characters of a drawn key line
MaxMatchTime == 4   \* the matcher's timestamps are 0 s, 0.5 s, ..., MaxMatchTime / 2 s
MaxDepth == 2       \* length of a drawn key path of the nested cache
MaxAccesses == 3    \* number of operations made on the nested cache
MaxIntervals == 2   \* number of black intervals, and of silence intervals, of a match

\* ---------------------------------------------------------------- program constants
min_duration == 12  \* `min_duration = 3` seconds in Media.clips
tolerance == 2      \* `tolerance: Decimal = Decimal("0.5")` seconds in DetectInterval.overlaps

\* ---------------------------------------------------------------- values
None == <<>>
Some(x) == <<x>>
IsNone(o) == o = <<>>
Get(o) == o[1]

DetectMetadata(sub_type, timestamp) == [sub_type |-> sub_type, timestamp |-> timestamp]

DetectInterval(start, end) == [start |-> start, end |-> end]

SplitMetadata(black_frame, silent_frame) ==
    [black_frame |-> black_frame, silent_frame |-> silent_frame]

Clip(frame_start, frame_end, time_start, time_end) ==
    [frame_start |-> frame_start, frame_end |-> frame_end,
     time_start |-> time_start, time_end |-> time_end]

frames(c) == c.frame_end - c.frame_start

duration(c) == c.time_end - c.time_start

\* ---------------------------------------------------------------- arithmetic
\* round(n / d) of a Decimal: ties go to the even neighbour (n >= 0, d > 0)
RoundHalfEven(n, d) ==
    LET q == n \div d
        r == n % d
    IN  IF 2 * r < d THEN q
        ELSE IF 2 * r > d THEN q + 1
        ELSE IF q % 2 = 0 THEN q ELSE q + 1

\* fps = frame count / duration, kept as an exact fraction
stream_fps(frame_count, dur) == [num |-> frame_count, den |-> dur]

fps_adjusted_frame(secs, fps) == RoundHalfEven(fps.num * secs, fps.den)

\* ---------------------------------------------------------------- SplitMetadata
\* The methods Media.clip and Media.clips call on a split point.
time(sp) == (sp.silent_frame.start.timestamp + sp.silent_frame.end.timestamp) \div 2

frame(sp, fps) == fps_adjusted_frame(time(sp), fps)

time_start(sp) == sp.silent_frame.start.timestamp

time_end(sp) == sp.silent_frame.end.timestamp

\* ---------------------------------------------------------------- clip planner
\* clip, were a clip to end where the silence of its end split point ends
clip_EndAtSilenceEnd(start, end, dur, frame_count) ==
    LET fps == stream_fps(frame_count, dur)
    IN  Clip(IF IsNone(start) THEN 0 ELSE frame(Get(start), fps),
             IF IsNone(end) THEN frame_count
             ELSE fps_adjusted_frame(time_end(Get(end)), fps),
             IF IsNone(start) THEN 0 ELSE time(Get(start)),
             IF IsNone(end) THEN dur ELSE time_end(Get(end)))

clip(start, end, dur, frame_count) ==
    LET fps == stream_fps(frame_count, dur)
    IN  Clip(IF IsNone(start) THEN 0 ELSE frame(Get(start), fps),
             IF IsNone(end) THEN frame_count ELSE frame(Get(end), fps),
             IF IsNone(start) THEN 0 ELSE time(Get(start)),
             IF IsNone(end) THEN dur ELSE time(Get(end)))

\* the local list `split_points` of Media.clips: the split points, with None
\* in front (behind) when the leading (trailing) clip is long enough
boundaries(sps, dur) ==
    LET head == IF time_start(sps[1]) >= min_duration THEN <<None>> ELSE <<>>
        tail == IF dur - time_end(sps[Len(sps)]) >= min_duration THEN <<None>> ELSE <<>>
        bs == IF sps # <<>>
              THEN head \o [i \in 1..Len(sps) |-> Some(sps[i])] \o tail
              ELSE <<>>
    IN  IF Len(bs) <= 1 THEN <<None, None>> ELSE bs

clips(sps, dur, frame_count) ==
    LET bs == boundaries(sps, dur)
    IN  [index \in 1..(Len(bs) - 1) |-> clip(bs[index], bs[index + 1], dur, frame_count)]

\* ---------------------------------------------------------------- process cache
\* A text is a sequence of characters; "CR" and "LF" are the two newline bytes.
Chars == {"x", "CR", "LF"}

RECURSIVE normalize_newlines(_)
\* data.replace("\r\n", "\n").replace("\r", "\n")
normalize_newlines(data) ==
    IF data = <<>> THEN <<>>
    ELSE IF data[1] = "CR"
         THEN IF Len(data) >= 2 /\ data[2] = "LF"
              THEN <<"LF">> \o normalize_newlines(SubSeq(data, 3, Len(data)))
              ELSE <<"LF">> \o normalize_newlines(Tail(data))
         ELSE <<data[1]>> \o normalize_newlines(Tail(data))

\* open(cache_file).read(): text mode translates "\r\n" and "\r" to "\n"
read_text(content) == normalize_newlines(content)

\* open(cache_file, mode="w").write(stdout) where os.linesep is "\n"
write_text(text) == text

\* `if check and process.returncode: raise CalledProcessError`
process_failed_Never(check, returncode) == FALSE

process_failed(check, returncode) == check /\ returncode # 0

\* core.utils.run_process: check=True, text=True
core_run_process(p) ==
    [raised |-> process_failed(TRUE, p.returncode),
     stdout |-> normalize_newlines(p.stdout)]

\* must_run, were the process run whatever the cache holds
must_run_Always(stdout) == TRUE

\* `if not stdout`: nothing was read from the cache, or an empty text was
must_run(stdout) == IsNone(stdout) \/ Get(stdout) = <<>>

\* Media.run_process(args, cache_key) with the cache file of the key being
\* `file` and the external process behaving as p
run_process(file, cache_key, p) ==
    LET cached == IF ~IsNone(cache_key) /\ ~IsNone(file)
                  THEN Some(read_text(Get(file)))
                  ELSE None
        cp == core_run_process(p)
    IN  IF must_run(cached)
        THEN IF cp.raised
             THEN [invoked |-> TRUE, raised |-> TRUE, stdout |-> None, file |-> file]
             ELSE [invoked |-> TRUE, raised |-> FALSE, stdout |-> Some(cp.stdout),
                   file |-> IF ~IsNone(cache_key)
                            THEN Some(write_text(cp.stdout))
                            ELSE file]
        ELSE [invoked |-> FALSE, raised |-> FALSE, stdout |-> cached, file |-> file]

\* ---------------------------------------------------------------- encode driver
\* `if media_id_file_path != basename: raise ValueError(...)`
media_id_conflict_Never(recorded, basename) == FALSE

media_id_conflict(recorded, basename) == recorded # basename

\* clip_exists, were an existing final file never looked for
clip_exists_Never(f) == FALSE

\* os.path.exists(clip_path); also os.path.exists(incomplete_clip_path)
clip_exists(f) == f # "absent"

\* is_whole_file, were a plan of one clip transcoded like any other
is_whole_file_Never(cs) == FALSE

\* `if len(clips) == 1`
is_whole_file(cs) == Len(cs) = 1

\* info[clip_file] = clip
\* an assignment that is lost
put_Nothing(d, key, value) == d

put(d, key, value) == [k \in DOMAIN d \cup {key} |-> IF k = key THEN value ELSE d[k]]

\* the entry Media._save_info writes for one clip (Decimals by their value)
clip_info(c) ==
    [frame_start |-> c.frame_start, frame_end |-> c.frame_end, frames |-> frames(c),
     time_start |-> c.time_start, time_end |-> c.time_end, duration |-> duration(c)]

\* the document Media._save_info dumps to info.yaml
save_info(basename, inf) ==
    [media |-> basename, clips |-> [f \in DOMAIN inf |-> clip_info(inf[f])]]

\* record_clip, were a clip recorded only once it is known not to be skipped
record_clip_UnlessSkipped(inf, clip_file, c, exists) ==
    IF exists THEN inf ELSE put(inf, clip_file, c)

\* `info[clip_file] = clip`, which comes before `if os.path.exists(clip_path)`
record_clip(inf, clip_file, c, exists) == put(inf, clip_file, c)

NoProc == [state |-> "none", returncode |-> 0, stdout_eof |-> FALSE, stderr_eof |-> FALSE]

\* ---------------------------------------------------------------- interval pairing
\* the loop `while i + 1 < len(frames)` of Media.intervals, from position i
\* (counted from 1 here): the intervals paired, or raised when a pair is not
\* a start followed by an end
RECURSIVE pair_frames(_, _)
pair_frames(detected, i) ==
    IF ~(i + 1 <= Len(detected))
    THEN [raised |-> FALSE, intervals |-> <<>>]
    ELSE LET start_frame == detected[i]
             end_frame == detected[i + 1]
         IN  IF start_frame.sub_type # "start" \/ end_frame.sub_type # "end"
             THEN [raised |-> TRUE, intervals |-> <<>>]
             ELSE LET rest == pair_frames(detected, i + 2)
                  IN  IF rest.raised
                      THEN rest
                      ELSE [raised |-> FALSE,
                            intervals |-> <<DetectInterval(start_frame, end_frame)>>
                                          \o rest.intervals]

\* Media.intervals: what the call returns or raises, and the cache entry after it
intervals(cached, detected) ==
    IF IsNone(cached)
    THEN LET r == pair_frames(detected, 1)
         IN  [raised |-> r.raised,
              returned |-> IF r.raised THEN None ELSE Some(r.intervals),
              cached |-> IF r.raised THEN None ELSE Some(r.intervals)]
    ELSE [raised |-> FALSE, returned |-> cached, cached |-> cached]

Kinds == {"black", "silence"}

NoPairing == [calls |-> 0, raised |-> FALSE, returned |-> None]

\* ---------------------------------------------------------------- matcher
\* the least element of a non-empty set of numbers
Least(S) == CHOOSE x \in S : \A y \in S : x <= y

Abs(x) == IF x < 0 THEN -x ELSE x

\* overlaps, were two intervals with edges within the tolerance to overlap
\* even when they are disjoint
overlaps_EvenDisjoint(self, other) ==
    LET st == self.start.timestamp
        et == self.end.timestamp
        other_st == other.start.timestamp
        other_et == other.end.timestamp
    IN  IF st >= other_st /\ et <= other_et THEN TRUE
        ELSE Abs(st - other_st) <= tolerance \/ Abs(et - other_et) <= tolerance

\* DetectInterval.overlaps(other) with the default tolerance
overlaps(self, other) ==
    LET st == self.start.timestamp
        et == self.end.timestamp
        other_st == other.start.timestamp
        other_et == other.end.timestamp
    IN  IF st >= other_st /\ et <= other_et THEN TRUE
        ELSE IF st > other_et \/ et < other_st THEN FALSE
        ELSE IF Abs(st - other_st) <= tolerance \/ Abs(et - other_et) <= tolerance
             THEN TRUE
             ELSE FALSE

\* SplitMetadata.adjusted_silent_start_frame / adjusted_silent_end_frame
adjusted_silent_start_frame(sp, video_fps) ==
    fps_adjusted_frame(sp.silent_frame.start.timestamp, video_fps)

adjusted_silent_end_frame(sp, video_fps) ==
    fps_adjusted_frame(sp.silent_frame.end.timestamp, video_fps)

\* SplitMetadata.adjusted_start_frame: int((start_frame + end_frame) / 2)
adjusted_start_frame(sp, video_fps) ==
    (adjusted_silent_start_frame(sp, video_fps) + adjusted_silent_end_frame(sp, video_fps))
        \div 2

\* SplitMetadata.average_start_timestamp (the timestamps drawn are whole half
\* seconds, so that the mean is a whole number of quarter seconds)
average_start_timestamp(sp) ==
    (sp.silent_frame.start.timestamp + sp.silent_frame.end.timestamp) \div 2

\* first_overlap, were the first remaining silence taken whether it overlaps or not
first_overlap_Any(black_interval, remaining, silents) ==
    IF remaining # <<>> THEN 1 ELSE 0

\* first_overlap, were the last overlapping silence taken
first_overlap_Last(black_interval, remaining, silents) ==
    LET hits == {i \in 1..Len(remaining) : overlaps(black_interval, silents[remaining[i]])}
    IN  IF hits = {} THEN 0 ELSE CHOOSE i \in hits : \A j \in hits : j <= i

\* `for i, silent_interval in enumerate(_silent_intervals): if
\* black_interval.overlaps(silent_interval): ... break`: the position in the
\* remaining silences of the first one the black interval overlaps, 0 if none.
\* A remaining silence is named by its position in Media.silent_intervals.
first_overlap(black_interval, remaining, silents) ==
    LET hits == {i \in 1..Len(remaining) : overlaps(black_interval, silents[remaining[i]])}
    IN  IF hits = {} THEN 0 ELSE Least(hits)

\* pop, were the silence left in the list
pop_Nothing(list, i) == list

\* _silent_intervals.pop(i)
pop(list, i) == SubSeq(list, 1, i - 1) \o SubSeq(list, i + 1, Len(list))

\* the loop `while _black_intervals` of Media.split_points from the black
\* interval at position b on; pairs are the (black, silence) positions of the
\* split points appended so far
RECURSIVE match_blacks(_, _, _, _, _)
match_blacks(blacks, silents, b, remaining, pairs) ==
    IF b > Len(blacks)
    THEN [pairs |-> pairs, unconsumed |-> remaining]
    ELSE LET i == first_overlap(blacks[b], remaining, silents)
         IN  IF i = 0
             THEN match_blacks(blacks, silents, b + 1, remaining, pairs)
             ELSE match_blacks(blacks, silents, b + 1, pop(remaining, i),
                               Append(pairs, <<b, remaining[i]>>))

\* Media.split_points: the list built, with the positions its intervals came from
match_split_points(blacks, silents) ==
    LET r == match_blacks(blacks, silents, 1, [i \in 1..Len(silents) |-> i], <<>>)
    IN  [split_points |-> [n \in 1..Len(r.pairs) |->
                              SplitMetadata(blacks[r.pairs[n][1]], silents[r.pairs[n][2]])],
         pairs |-> r.pairs,
         unconsumed |-> r.unconsumed]

\* ---------------------------------------------------------------- detection parser
\* A line is a sequence of characters.  "F" stands for a text that
\* FFMPEG_FRAME_LINE matches ("frame:1 pts:2 pts_time:3"), "s" for a blank
\* character, "a" for a character that is none of ". _ =".
RECURSIVE lstrip(_)
lstrip(line) == IF line # <<>> /\ line[1] = "s" THEN lstrip(Tail(line)) ELSE line

RECURSIVE rstrip(_)
rstrip(line) ==
    IF line # <<>> /\ line[Len(line)] = "s"
    THEN rstrip(SubSeq(line, 1, Len(line) - 1))
    ELSE line

\* line.strip()
strip(line) == rstrip(lstrip(line))

\* re.match(FFMPEG_FRAME_LINE, line): the pattern is matched at the start of
\* the line and is not anchored at its end
is_frame_line(line) == line # <<>> /\ line[1] = "F"

\* `(?:_([^_]+?))?=(.+)` tried after a type that ends at position k of r:
\* the positions m where a subtype r[k+2..m] can end, the shortest first
sub_type_ends(r, k) ==
    {m \in (k + 2)..(Len(r) - 2) :
        /\ r[k + 1] = "_"
        /\ \A j \in (k + 2)..m : r[j] # "_"
        /\ r[m + 1] = "="}

\* the type r[1..k] lets the rest of the pattern match
type_ends_at(r, k) ==
    \/ sub_type_ends(r, k) # {}
    \/ (k + 2 <= Len(r) /\ r[k + 1] = "=")

\* `(.+?)(?:_([^_]+?))?=(.+)` matched on the whole of r: the lazy type is the
\* shortest that lets the rest match, the optional subtype is taken when it
\* can be, the value runs to the end of the line
match_key_rest(r) ==
    LET ks == {k \in 1..Len(r) : type_ends_at(r, k)}
    IN  IF ks = {} THEN None
        ELSE LET k == Least(ks)
                 ms == sub_type_ends(r, k)
             IN  IF ms # {}
                 THEN Some([type |-> SubSeq(r, 1, k),
                            sub_type |-> Some(SubSeq(r, k + 2, Least(ms))),
                            value |-> SubSeq(r, Least(ms) + 2, Len(r))])
                 ELSE Some([type |-> SubSeq(r, 1, k),
                            sub_type |-> None,
                            value |-> SubSeq(r, k + 2, Len(r))])

\* re.match(FFMPEG_KEY_LINE, line).groups(): `(?:([^.]+?)\.)?` is tried
\* first with the text before the first "." as the filter, then without it
match_key_line(line) ==
    LET dots == {i \in 1..Len(line) : line[i] = "."}
        with_filter ==
            IF dots # {} /\ Least(dots) >= 2
            THEN match_key_rest(SubSeq(line, Least(dots) + 1, Len(line)))
            ELSE None
        without_filter == match_key_rest(line)
    IN  IF ~IsNone(with_filter)
        THEN Some([filter |-> Some(SubSeq(line, 1, Least(dots) - 1)),
                   type |-> Get(with_filter).type,
                   sub_type |-> Get(with_filter).sub_type,
                   value |-> Get(with_filter).value])
        ELSE IF ~IsNone(without_filter)
             THEN Some([filter |-> None,
                        type |-> Get(without_filter).type,
                        sub_type |-> Get(without_filter).sub_type,
                        value |-> Get(without_filter).value])
             ELSE None

\* FrameMetadata(line, *match.groups())
FrameMetadata(raw, groups) ==
    [raw |-> raw, filter |-> groups.filter, type |-> groups.type,
     sub_type |-> groups.sub_type, value |-> groups.value]

\* f"{x}" of an Optional[str]: the text of None is the word None
format_optional(x) == IF IsNone(x) THEN <<"None">> ELSE Get(x)

\* a key that tells two values of one field apart
key_WithValue(metadata) ==
    format_optional(metadata.filter) \o <<".">> \o metadata.type \o <<"=">> \o metadata.value

\* FrameMetadata.key
key(metadata) ==
    LET sub_type == IF ~IsNone(metadata.sub_type) /\ Get(metadata.sub_type) # <<>>
                    THEN <<"_">> \o Get(metadata.sub_type)
                    ELSE <<>>
    IN  format_optional(metadata.filter) \o <<".">> \o metadata.type \o sub_type

\* FrameMetadata.__str__
metadata_str(metadata) == key(metadata) \o <<"=">> \o metadata.value

\* FrameInfo(line, *match.groups()) with an empty metadata dict
FrameInfo(raw) == [raw |-> raw, metadata |-> <<>>]

\* the loop `for line in ffmpeg_lines` of Media.frames from line i on:
\* fs are the frames appended so far, fr is the open frame
RECURSIVE parse_lines(_, _, _, _)
parse_lines(lines, i, fs, fr) ==
    IF i > Len(lines)
    THEN [raised |-> FALSE,
          frames |-> IF ~IsNone(fr) THEN Append(fs, Get(fr)) ELSE fs]
    ELSE LET line == lines[i]
         IN  IF is_frame_line(line)
             THEN parse_lines(lines, i + 1,
                              IF ~IsNone(fr) THEN Append(fs, Get(fr)) ELSE fs,
                              Some(FrameInfo(line)))
             ELSE IF ~IsNone(match_key_line(line))
                  THEN LET metadata == FrameMetadata(line, Get(match_key_line(line)))
                       IN  IF IsNone(fr)
                           THEN [raised |-> TRUE, frames |-> <<>>]
                           ELSE IF key(metadata) \in DOMAIN Get(fr).metadata
                                THEN [raised |-> TRUE, frames |-> <<>>]
                                ELSE parse_lines(lines, i + 1, fs,
                                        Some([Get(fr) EXCEPT !.metadata =
                                                put(@, key(metadata), metadata)]))
                  ELSE [raised |-> TRUE, frames |-> <<>>]

\* a parser that starts at the first frame line and skips what precedes it
media_frames_FromFirstFrame(cached, output) ==
    IF IsNone(cached)
    THEN LET ffmpeg_lines == [i \in 1..Len(output) |-> strip(output[i])]
             starts == {i \in 1..Len(output) : is_frame_line(ffmpeg_lines[i])}
             r == parse_lines(ffmpeg_lines,
                              IF starts = {} THEN Len(output) + 1 ELSE Least(starts),
                              <<>>, None)
         IN  [raised |-> r.raised,
              cached |-> IF r.raised THEN None ELSE Some(r.frames)]
    ELSE [raised |-> FALSE, cached |-> cached]

\* Media.frames: what the property returns or raises, and the cache entry after it
media_frames(cached, output) ==
    IF IsNone(cached)
    THEN LET ffmpeg_lines == [i \in 1..Len(output) |-> strip(output[i])]
             r == parse_lines(ffmpeg_lines, 1, <<>>, None)
         IN  [raised |-> r.raised,
              cached |-> IF r.raised THEN None ELSE Some(r.frames)]
    ELSE [raised |-> FALSE, cached |-> cached]

\* ---------------------------------------------------------------- nested cache
\* A value held by the Cache is a leaf (an object that is not a dict, named
\* here by its Python text) or a dict of values.  The Cache itself holds its
\* entries in the dict self.data.
Leaf(value) == [kind |-> "leaf", value |-> value]

Dict(items) == [kind |-> "dict", items |-> items]

\* bool(x) is False: 0, '', [], False, None and the empty dict
falsy(node) ==
    IF node.kind = "leaf"
    THEN node.value \in {"0", "''", "[]", "False", "None"}
    ELSE DOMAIN node.items = {}

\* Cache._normalize_key_path: a list is the path itself, a key that is
\* neither a list nor a tuple is a path of one key
normalize_key_path(key_path) ==
    IF key_path.kind = "list" THEN key_path.keys ELSE <<key_path.key>>

\* Cache._follow_key(key_path), create=False: indexing a dict without the
\* key raises KeyError, indexing an int, str, list or bool with a str key
\* raises TypeError
RECURSIVE follow_key(_, _)
follow_key(node, key_path) ==
    IF key_path = <<>> THEN [raised |-> "none", node |-> node]
    ELSE IF node.kind # "dict" THEN [raised |-> "TypeError", node |-> node]
    ELSE IF Head(key_path) \notin DOMAIN node.items
         THEN [raised |-> "KeyError", node |-> node]
         ELSE follow_key(node.items[Head(key_path)], Tail(key_path))

\* Cache.__setitem__ on an already normalized path: _follow_key with
\* create=True makes an empty dict for each missing key of key_path[:-1],
\* then the value is assigned under the last key
RECURSIVE set_item(_, _, _)
set_item(node, key_path, value) ==
    IF node.kind # "dict" THEN [raised |-> "TypeError", node |-> node]
    ELSE IF Len(key_path) = 1
         THEN [raised |-> "none",
               node |-> Dict(put(node.items, key_path[1], value))]
         ELSE LET child == IF Head(key_path) \in DOMAIN node.items
                           THEN node.items[Head(key_path)]
                           ELSE Dict(<<>>)
                  r == set_item(child, Tail(key_path), value)
              IN  IF r.raised # "none"
                  THEN [raised |-> r.raised, node |-> node]
                  ELSE [raised |-> "none",
                        node |-> Dict(put(node.items, Head(key_path), r.node))]

\* Cache.__delitem__ on an already normalized path
RECURSIVE del_item(_, _)
del_item(node, key_path) ==
    IF node.kind # "dict" THEN [raised |-> "TypeError", node |-> node]
    ELSE IF Head(key_path) \notin DOMAIN node.items
         THEN [raised |-> "KeyError", node |-> node]
         ELSE IF Len(key_path) = 1
              THEN [raised |-> "none",
                    node |-> Dict([k \in DOMAIN node.items \ {key_path[1]} |-> node.items[k]])]
              ELSE LET r == del_item(node.items[Head(key_path)], Tail(key_path))
                   IN  IF r.raised # "none"
                       THEN [raised |-> r.raised, node |-> node]
                       ELSE [raised |-> "none",
                             node |-> Dict(put(node.items, Head(key_path), r.node))]

\* Cache.__getitem__: `return self._follow_key(key_path) or None`
get_item(node, key_path) ==
    LET r == follow_key(node, key_path)
    IN  [raised |-> r.raised,
         returned |-> IF r.raised # "none" \/ falsy(r.node) THEN Leaf("None") ELSE r.node]

\* Cache.__contains__: KeyError is caught, any other exception is not
contains(node, key_path) ==
    LET r == follow_key(node, key_path)
    IN  [raised |-> IF r.raised = "KeyError" THEN "none" ELSE r.raised,
         found |-> r.raised = "none"]

\* ---------------------------------------------------------------- inputs
Timestamps == {4 * k : k \in 0..MaxTime}

SilenceIntervals ==
    {DetectInterval(DetectMetadata("start", s), DetectMetadata("end", e)) :
        <<s, e>> \in {p \in Timestamps \X Timestamps :
                        p[1] <= p[2] /\ p[2] - p[1] <= 4 * MaxSilence}}

\* a split point whose black interval is its silence interval (they overlap)
DrawnSplitPoints == {SplitMetadata(i, i) : i \in SilenceIntervals}

SeqsUpTo(S, n) == UNION {[1..k -> S] : k \in 0..n}

CacheKeys == {"info_json", "ffmpeg_output"}

Contents == SeqsUpTo(Chars, MaxOutput)

Files == {None} \cup {Some(c) : c \in Contents}

NoCall == [made |-> FALSE]

Basenames == {"A", "B"}

\* nothing done yet; exits[n] is the exit code of the transcoder of clip n,
\* -1 as long as it has not exited
ZeroStats ==
    [probes |-> 0, analyses |-> 0, transcodes |-> 0, links |-> 0, removes |-> 0,
     renames |-> 0, exits |-> [n \in 0..MaxDriverSplits |-> -1]]

\* the clip files <n><ext> a plan of the encode driver can name
ClipFiles == 0..MaxDriverSplits

\* The encode driver does not look at the clip bounds.  It is run on a video
\* of MaxDriverSplits + 1 times min_duration, at one frame per second, and on
\* analyses whose silences are instants at the multiples of min_duration
\* inside the video, in detection order; these give plans of one clip up to
\* MaxDriverSplits + 1 clips.
DriverDuration == min_duration * (MaxDriverSplits + 1)

DriverSplitPoints ==
    {SplitMetadata(i, i) :
        i \in {DetectInterval(DetectMetadata("start", min_duration * k),
                              DetectMetadata("end", min_duration * k)) :
                    k \in 1..MaxDriverSplits}}

DriverAnalyses ==
    {a \in SeqsUpTo(DriverSplitPoints, MaxDriverSplits) :
        \A i \in 1..(Len(a) - 1) : time_end(a[i]) < time_start(a[i + 1])}

ReturnCodes == {0, 1}

\* ---------------------------------------------------------------- parts at rest
\* Each specification below runs one part of the program; the variables of
\* the other parts keep these values.
IdleFs ==
    /\ media_id = "none"
    /\ final = [n \in ClipFiles |-> "absent"]
    /\ incomplete = [n \in ClipFiles |-> "absent"]
    /\ cache_files = [k \in CacheKeys |-> None]
    /\ manifest = None

IdleRun ==
    /\ batch = <<>>
    /\ file_index = 1
    /\ pc = "idle"
    /\ dry_run = FALSE
    /\ handlers = 0
    /\ clip_index = 0
    /\ info = <<>>
    /\ proc = NoProc
    /\ stats = ZeroStats
    /\ start_final = final
    /\ start_incomplete = incomplete
    /\ outcomes = <<>>

IdlePlan ==
    /\ video_duration = 4 * MaxTime
    /\ video_frame_count = MaxTime
    /\ split_points = <<>>
    /\ plan = <<>>
    /\ planned = FALSE

IdleCalls ==
    /\ tool_output = <<>>
    /\ calls = 0
    /\ last_call = NoCall

IdlePair ==
    /\ detect_frames = [kind \in Kinds |-> <<>>]
    /\ interval_cache = [kind \in Kinds |-> None]
    /\ pairing = [kind \in Kinds |-> NoPairing]

IdleParse ==
    /\ ffmpeg_output = <<>>
    /\ frames_cache = None
    /\ parse_raised = FALSE

IdleMatch ==
    /\ black_list = <<>>
    /\ silent_list = <<>>
    /\ match_result = None
    /\ cut_frames = None

NoAccess ==
    [op |-> "none", key_path |-> <<>>, value |-> Leaf("None"), raised |-> "none",
     found |-> FALSE, returned |-> Leaf("None"), before |-> Dict(<<>>)]

IdleStore ==
    /\ cache_data = Dict(<<>>)
    /\ access = NoAccess
    /\ accesses = 0

\* ---------------------------------------------------------------- SpecPlan
InitPlan ==
    /\ IdleFs /\ IdleRun /\ IdleCalls /\ IdlePair /\ IdleParse /\ IdleMatch /\ IdleStore
    /\ video_duration = 4 * MaxTime
    /\ video_frame_count \in {f * MaxTime : f \in 1..MaxFps}
    /\ split_points \in SeqsUpTo(DrawnSplitPoints, MaxSplits)
    /\ plan = <<>>
    /\ planned = FALSE

PlanClips ==
    /\ ~planned
    /\ plan' = clips(split_points, video_duration, video_frame_count)
    /\ planned' = TRUE
    /\ UNCHANGED <<video_duration, video_frame_count, split_points>>
    /\ UNCHANGED <<fsVars, runVars, callVars>>
    /\ UNCHANGED pairVars
    /\ UNCHANGED <<parseVars, matchVars, storeVars>>

NextPlan == PlanClips

SpecPlan == InitPlan /\ [][NextPlan]_vars

\* ---------------------------------------------------------------- SpecCache
\* Media.run_process called up to MaxCalls times on one cache directory.
InitCache ==
    /\ media_id = "none"
    /\ final = [n \in ClipFiles |-> "absent"]
    /\ incomplete = [n \in ClipFiles |-> "absent"]
    /\ manifest = None
    /\ \E present \in CacheKeys, f \in Files :
        cache_files = [k \in CacheKeys |-> IF k = present THEN f ELSE None]
    /\ tool_output \in Contents
    /\ calls = 0
    /\ last_call = NoCall
    /\ IdleRun /\ IdlePlan /\ IdlePair /\ IdleParse /\ IdleMatch /\ IdleStore

CallRunProcess ==
    /\ calls < MaxCalls
    /\ \E cache_key \in {None} \cup {Some(k) : k \in CacheKeys}, rc \in ReturnCodes :
        LET file == IF IsNone(cache_key) THEN None ELSE cache_files[Get(cache_key)]
            p == [returncode |-> rc, stdout |-> tool_output]
            r == run_process(file, cache_key, p)
        IN  /\ cache_files' = IF IsNone(cache_key) THEN cache_files
                              ELSE [cache_files EXCEPT ![Get(cache_key)] = r.file]
            /\ last_call' = [made |-> TRUE, cache_key |-> cache_key, before |-> file,
                             process |-> p, result |-> r]
    /\ calls' = calls + 1
    /\ UNCHANGED <<tool_output, media_id, final, incomplete, manifest, planVars, runVars>>
    /\ UNCHANGED pairVars
    /\ UNCHANGED <<parseVars, matchVars, storeVars>>

NextCache == CallRunProcess

SpecCache == InitCache /\ [][NextCache]_vars

\* ---------------------------------------------------------------- Spec
\* SmartSplitter.split_files over a batch whose files all map to one output
\* directory, with Media.__init__ and Media.split for each file.
Init ==
    /\ media_id \in {"none"} \cup Basenames
    /\ final \in [ClipFiles -> {"absent", "present"}]
    \* a clip file is never left with both its final and its .incomplete file
    /\ incomplete \in {f \in [ClipFiles -> {"absent", "stale"}] :
                            \A n \in ClipFiles : f[n] = "stale" => final[n] = "absent"}
    /\ cache_files = [k \in CacheKeys |-> None]
    /\ manifest = None
    \* the first file is called A; the directory may record A, B or nothing
    /\ batch \in {b \in SeqsUpTo(Basenames, MaxBatch) : b # <<>> /\ b[1] = "A"}
    /\ file_index = 1
    /\ pc = "next_file"
    /\ dry_run \in BOOLEAN
    /\ handlers = 0
    /\ clip_index = 0
    /\ info = <<>>
    /\ proc = NoProc
    /\ stats = ZeroStats
    /\ start_final = final
    /\ start_incomplete = incomplete
    /\ outcomes = <<>>
    /\ video_duration = DriverDuration
    /\ video_frame_count = DriverDuration \div 4
    /\ split_points = <<>>
    /\ plan = <<>>
    /\ planned = FALSE
    /\ IdleCalls
    /\ IdlePair
    /\ IdleParse
    /\ IdleMatch /\ IdleStore

\* a batch loop without the `except` and `finally` of split_files
EndFileSince_ErrorEndsBatch(result, st, final_before, incomplete_before) ==
    /\ outcomes' = Append(outcomes, [file |-> batch[file_index], result |-> result,
                                     stats |-> st,
                                     touched |-> final # final_before
                                                 \/ incomplete # incomplete_before])
    /\ handlers' = IF result \in {"ok", "skipped"} THEN 0 ELSE handlers
    /\ file_index' = file_index + 1
    /\ pc' = IF file_index = Len(batch) \/ result \notin {"ok", "skipped"}
             THEN "finished" ELSE "next_file"

\* the `except` and `finally` of split_files, then the next media file
\* st is what the run of the file has done; no step that ends a file changes a
\* clip file
EndFileSince(result, st, final_before, incomplete_before) ==
    /\ outcomes' = Append(outcomes, [file |-> batch[file_index], result |-> result,
                                     stats |-> st,
                                     touched |-> final # final_before
                                                 \/ incomplete # incomplete_before])
    /\ handlers' = 0
    /\ file_index' = file_index + 1
    /\ pc' = IF file_index = Len(batch) THEN "finished" ELSE "next_file"

EndFile(result, st) == EndFileSince(result, st, start_final, start_incomplete)

\* a loop that passes over the clip after the current one
NextClip_SkipOne ==
    /\ clip_index' = clip_index + 2
    /\ pc' = IF clip_index + 2 < Len(plan) THEN "clip_check" ELSE "save_info"

\* the loop of Media.split moves on to the next clip
NextClip ==
    /\ clip_index' = clip_index + 1
    /\ pc' = IF clip_index + 1 < Len(plan) THEN "clip_check" ELSE "save_info"

\* split_files, from `for media_file in media_files` to just before Media(...)
BeginFile ==
    /\ pc = "next_file"
    /\ stats' = ZeroStats
    /\ start_final' = final
    /\ start_incomplete' = incomplete
    /\ info' = <<>>
    /\ clip_index' = 0
    /\ proc' = NoProc
    /\ split_points' = <<>>
    /\ plan' = <<>>
    /\ planned' = FALSE
    /\ \E matched \in BOOLEAN :
        IF ~matched
        THEN EndFileSince("skipped", ZeroStats, final, incomplete)
        ELSE IF media_id = "none"
             THEN EndFileSince("io_error", ZeroStats, final, incomplete)
             ELSE IF media_id_conflict(media_id, batch[file_index])
                  THEN EndFileSince("conflict", ZeroStats, final, incomplete)
                  ELSE /\ pc' = "media_init"
                       /\ UNCHANGED <<outcomes, handlers, file_index>>
    /\ UNCHANGED <<fsVars, batch, dry_run, video_duration, video_frame_count, callVars>>
    /\ UNCHANGED pairVars
    /\ UNCHANGED <<parseVars, matchVars, storeVars>>

\* Media.__init__: init_logger, then log_basic_info, which probes the file
MediaInit ==
    /\ pc = "media_init"
    /\ \E rc \in ReturnCodes, probe_ok \in BOOLEAN :
        LET r == run_process(cache_files["info_json"], Some("info_json"),
                             [returncode |-> rc, stdout |-> <<"x">>])
            st == [stats EXCEPT !.probes = @ + (IF r.invoked THEN 1 ELSE 0)]
        IN  /\ cache_files' = [cache_files EXCEPT !["info_json"] = r.file]
            /\ stats' = st
            /\ IF r.raised
               THEN EndFile("process_error", st)
               ELSE IF ~probe_ok
                    THEN EndFile("probe_error", st)
                    ELSE /\ pc' = "plan"
                         /\ handlers' = 1
                         /\ UNCHANGED <<outcomes, file_index>>
    /\ UNCHANGED <<media_id, final, incomplete, manifest, batch, dry_run, clip_index, info,
                   proc, start_final, start_incomplete, planVars, callVars>>
    /\ UNCHANGED pairVars
    /\ UNCHANGED <<parseVars, matchVars, storeVars>>

\* `clips = self.clips()` of Media.split: the analysis, its parsing, the plan
PlanStep ==
    /\ pc = "plan"
    /\ \E rc \in ReturnCodes, parse_ok \in BOOLEAN, analysis \in DriverAnalyses :
        LET r == run_process(cache_files["ffmpeg_output"], Some("ffmpeg_output"),
                             [returncode |-> rc, stdout |-> <<"x">>])
            st == [stats EXCEPT !.analyses = @ + (IF r.invoked THEN 1 ELSE 0)]
        IN  /\ cache_files' = [cache_files EXCEPT !["ffmpeg_output"] = r.file]
            /\ stats' = st
            /\ IF r.raised
               THEN EndFile("process_error", st) /\ UNCHANGED <<split_points, plan, planned>>
               ELSE IF ~parse_ok
                    THEN EndFile("parse_error", st) /\ UNCHANGED <<split_points, plan, planned>>
                    ELSE /\ split_points' = analysis
                         /\ plan' = clips(analysis, video_duration, video_frame_count)
                         /\ planned' = TRUE
                         /\ pc' = "clip_check"
                         /\ UNCHANGED <<outcomes, handlers, file_index>>
    /\ UNCHANGED <<media_id, final, incomplete, manifest, batch, dry_run, clip_index, info,
                   proc, start_final, start_incomplete, video_duration, video_frame_count,
                   callVars>>
    /\ UNCHANGED pairVars
    /\ UNCHANGED <<parseVars, matchVars, storeVars>>

\* Media.split for one clip, from the top of the loop body to the removal of
\* a left-over .incomplete file
ClipCheck ==
    /\ pc = "clip_check"
    /\ info' = record_clip(info, clip_index, plan[clip_index + 1],
                           clip_exists(final[clip_index]))
    /\ IF clip_exists(final[clip_index])
       THEN /\ NextClip
            /\ UNCHANGED <<incomplete, stats>>
       ELSE /\ IF clip_exists(incomplete[clip_index])
               THEN /\ incomplete' = [incomplete EXCEPT ![clip_index] = "absent"]
                    /\ stats' = [stats EXCEPT !.removes = @ + 1]
               ELSE UNCHANGED <<incomplete, stats>>
            /\ pc' = "clip_encode"
            /\ UNCHANGED clip_index
    /\ UNCHANGED <<media_id, final, cache_files, manifest, batch, file_index, dry_run,
                   handlers, proc, start_final, start_incomplete, outcomes, planVars,
                   callVars>>
    /\ UNCHANGED pairVars
    /\ UNCHANGED <<parseVars, matchVars, storeVars>>

\* Media.split for one clip: the hard link of a whole file, the dry run, or
\* the start of the transcoder
ClipEncode ==
    /\ pc = "clip_encode"
    /\ IF is_whole_file(plan)
       THEN \E link_ok \in BOOLEAN :
                IF link_ok /\ final[clip_index] = "absent"
                THEN /\ final' = [final EXCEPT ![clip_index] = "link"]
                     /\ stats' = [stats EXCEPT !.links = @ + 1]
                     /\ NextClip
                     /\ UNCHANGED <<proc, outcomes, handlers, file_index>>
                ELSE /\ EndFile("os_error", stats)
                     /\ UNCHANGED <<final, stats, proc, clip_index>>
       ELSE IF dry_run
            THEN /\ NextClip
                 /\ UNCHANGED <<final, stats, proc, outcomes, handlers, file_index>>
            ELSE /\ proc' = [state |-> "running", returncode |-> 0,
                             stdout_eof |-> FALSE, stderr_eof |-> FALSE]
                 /\ stats' = [stats EXCEPT !.transcodes = @ + 1]
                 /\ pc' = "transcoding"
                 /\ UNCHANGED <<final, clip_index, outcomes, handlers, file_index>>
    /\ UNCHANGED <<media_id, incomplete, cache_files, manifest, batch, dry_run, info,
                   start_final, start_incomplete, planVars, callVars>>
    /\ UNCHANGED pairVars
    /\ UNCHANGED <<parseVars, matchVars, storeVars>>

\* the transcoder starts to write its output file
TranscoderWrite ==
    /\ pc = "transcoding"
    /\ proc.state = "running"
    /\ incomplete[clip_index] = "absent"
    /\ incomplete' = [incomplete EXCEPT ![clip_index] = "partial"]
    /\ UNCHANGED <<media_id, final, cache_files, manifest, runVars, planVars, callVars>>
    /\ UNCHANGED pairVars
    /\ UNCHANGED <<parseVars, matchVars, storeVars>>

\* the transcoder exits: with code 0 once its output file is complete
TranscoderExit ==
    /\ pc = "transcoding"
    /\ proc.state = "running"
    /\ \E rc \in ReturnCodes :
        /\ proc' = [proc EXCEPT !.state = "exited", !.returncode = rc]
        /\ stats' = [stats EXCEPT !.exits[clip_index] = rc]
        /\ incomplete' = IF rc = 0
                         THEN [incomplete EXCEPT ![clip_index] = "complete"]
                         ELSE incomplete
    /\ UNCHANGED <<media_id, final, cache_files, manifest, batch, file_index, pc, dry_run,
                   handlers, clip_index, info, start_final, start_incomplete,
                   outcomes, planVars, callVars>>
    /\ UNCHANGED pairVars
    /\ UNCHANGED <<parseVars, matchVars, storeVars>>

\* capture_output on the child's stdout reads the end of the stream
StdoutEOF ==
    /\ pc = "transcoding"
    /\ ~proc.stdout_eof
    /\ proc' = [proc EXCEPT !.stdout_eof = TRUE]
    /\ UNCHANGED <<fsVars, batch, file_index, pc, dry_run, handlers, clip_index, info, stats,
                   start_final, start_incomplete, outcomes, planVars, callVars>>
    /\ UNCHANGED pairVars
    /\ UNCHANGED <<parseVars, matchVars, storeVars>>

\* process.stderr.read() returns at the end of the stream
StderrEOF ==
    /\ pc = "transcoding"
    /\ ~proc.stderr_eof
    /\ proc' = [proc EXCEPT !.stderr_eof = TRUE]
    /\ UNCHANGED <<fsVars, batch, file_index, pc, dry_run, handlers, clip_index, info, stats,
                   start_final, start_incomplete, outcomes, planVars, callVars>>
    /\ UNCHANGED pairVars
    /\ UNCHANGED <<parseVars, matchVars, storeVars>>

\* a wait for the exit of the child alone
gathered_ExitOnly(p) == p.state = "exited"

\* async_run_process after `await asyncio.gather(...)` and `await process.wait()`
gathered(p) == p.stdout_eof /\ p.stderr_eof /\ p.state = "exited"

\* async_run_process returns to Media._split, or raises CalledProcessError
Join ==
    /\ pc = "transcoding"
    /\ gathered(proc)
    /\ IF process_failed(TRUE, proc.returncode)
       THEN EndFile("process_error", stats)
       ELSE /\ pc' = "rename"
            /\ UNCHANGED <<outcomes, handlers, file_index>>
    /\ UNCHANGED <<fsVars, batch, dry_run, clip_index, info, proc, stats, start_final,
                   start_incomplete, planVars, callVars>>
    /\ UNCHANGED pairVars
    /\ UNCHANGED <<parseVars, matchVars, storeVars>>

\* a commit that copies the .incomplete file and leaves it in place
Rename_KeepsIncomplete ==
    /\ pc = "rename"
    /\ final' = [final EXCEPT ![clip_index] = incomplete[clip_index]]
    /\ stats' = [stats EXCEPT !.renames = @ + 1]
    /\ NextClip
    /\ UNCHANGED <<media_id, incomplete, cache_files, manifest, batch, dry_run, info, proc,
                   start_final, start_incomplete, outcomes, handlers, file_index, planVars,
                   callVars, pairVars, parseVars, matchVars, storeVars>>

\* os.rename(incomplete_clip_path, clip_path)
Rename ==
    /\ pc = "rename"
    /\ IF incomplete[clip_index] = "absent"
       THEN /\ EndFile("os_error", stats)
            /\ UNCHANGED <<final, incomplete, stats, clip_index>>
       ELSE /\ final' = [final EXCEPT ![clip_index] = incomplete[clip_index]]
            /\ incomplete' = [incomplete EXCEPT ![clip_index] = "absent"]
            /\ stats' = [stats EXCEPT !.renames = @ + 1]
            /\ NextClip
            /\ UNCHANGED <<outcomes, handlers, file_index>>
    /\ UNCHANGED <<media_id, cache_files, manifest, batch, dry_run, info, proc, start_final,
                   start_incomplete, planVars, callVars>>
    /\ UNCHANGED pairVars
    /\ UNCHANGED <<parseVars, matchVars, storeVars>>

\* self._save_info(info), the last statement of Media.split
SaveInfo ==
    /\ pc = "save_info"
    /\ manifest' = Some(save_info(batch[file_index], info))
    /\ EndFile("ok", stats)
    /\ UNCHANGED <<media_id, final, incomplete, cache_files, batch, dry_run, clip_index, info,
                   proc, stats, start_final, start_incomplete, planVars, callVars>>
    /\ UNCHANGED pairVars
    /\ UNCHANGED <<parseVars, matchVars, storeVars>>

\* the program is killed (power loss, SIGKILL) between two steps
Crash ==
    /\ pc \notin {"finished", "crashed", "idle"}
    /\ pc' = "crashed"
    /\ UNCHANGED <<fsVars, batch, file_index, dry_run, handlers, clip_index, info, proc,
                   stats, start_final, start_incomplete, outcomes, planVars, callVars>>
    /\ UNCHANGED pairVars
    /\ UNCHANGED <<parseVars, matchVars, storeVars>>

Next ==
    \/ BeginFile
    \/ MediaInit
    \/ PlanStep
    \/ ClipCheck
    \/ ClipEncode
    \/ TranscoderWrite
    \/ TranscoderExit
    \/ StdoutEOF
    \/ StderrEOF
    \/ Join
    \/ Rename
    \/ SaveInfo
    \/ Crash

Spec == Init /\ [][Next]_vars

\* ---------------------------------------------------------------- SpecResume
\* One run of split_files on the file the output directory records, over an
\* output directory that holds any final files and any .incomplete files.
InitAnyDirectory ==
    /\ media_id = "A"
    /\ final \in [ClipFiles -> {"absent", "present"}]
    \* any .incomplete files, next to a final file or not
    /\ incomplete \in [ClipFiles -> {"absent", "stale"}]
    /\ cache_files = [k \in CacheKeys |-> None]
    /\ manifest = None
    /\ batch = <<"A">>
    /\ file_index = 1
    /\ pc = "next_file"
    /\ dry_run \in BOOLEAN
    /\ handlers = 0
    /\ clip_index = 0
    /\ info = <<>>
    /\ proc = NoProc
    /\ stats = ZeroStats
    /\ start_final = final
    /\ start_incomplete = incomplete
    /\ outcomes = <<>>
    /\ video_duration = DriverDuration
    /\ video_frame_count = DriverDuration \div 4
    /\ split_points = <<>>
    /\ plan = <<>>
    /\ planned = FALSE
    /\ IdleCalls
    /\ IdlePair
    /\ IdleParse
    /\ IdleMatch /\ IdleStore

SpecResume == InitAnyDirectory /\ [][Next]_vars

\* ---------------------------------------------------------------- claims of the planner

\* C1: in every plan of two or more clips, each clip's frame_end is the next
\* clip's frame_start: consecutive clips neither overlap nor leave a gap.
C1_Contiguous ==
    planned /\ Len(plan) >= 2 =>
        \A i \in 1..(Len(plan) - 1) : plan[i].frame_end = plan[i + 1].frame_start

\* a plan of three clips cut at two different frames inside the video
C1_Witness ==
    /\ planned
    /\ Len(plan) = 3
    /\ 0 < plan[1].frame_end
    /\ plan[1].frame_end < plan[2].frame_end
    /\ plan[2].frame_end < video_frame_count
    /\ time_start(split_points[1]) # time_end(split_points[1])

\* C2 as stated: the first planned clip starts at frame 0 and the last one ends
\* at the total frame count, whatever the split points.
C2_CoversWholeStream ==
    planned =>
        /\ plan[1].frame_start = 0
        /\ plan[Len(plan)].frame_end = video_frame_count

\* C9 as stated: no planned clip that ends at a split point (other than one at
\* frame 0) is shorter than the minimum duration.
C9_NoShortClipEndsAtSplitPoint ==
    planned =>
        \A k \in 1..Len(plan) :
            LET end == boundaries(split_points, video_duration)[k + 1]
            IN  (~IsNone(end)
                 /\ frame(Get(end), stream_fps(video_frame_count, video_duration)) # 0)
                => duration(plan[k]) >= min_duration

\* C17: every clip of every plan has frame_start < frame_end.
C17_ClipsHaveFrames ==
    planned => \A k \in 1..Len(plan) : plan[k].frame_start < plan[k].frame_end

\* ---------------------------------------------------------------- SpecPair
\* Media.black_intervals and Media.silent_intervals over the start/end events
\* of an analysis; the event at position i carries the timestamp of i seconds.
SubTypes == {"start", "end"}

DrawnEvents ==
    {[i \in 1..Len(sub_types) |-> DetectMetadata(sub_types[i], 4 * i)] :
        sub_types \in SeqsUpTo(SubTypes, MaxEvents)}

InitPair ==
    /\ IdleFs /\ IdleRun /\ IdlePlan /\ IdleCalls /\ IdleParse /\ IdleMatch /\ IdleStore
    /\ detect_frames \in [Kinds -> DrawnEvents]
    /\ interval_cache = [kind \in Kinds |-> None]
    /\ pairing = [kind \in Kinds |-> NoPairing]

GetIntervals(kind) ==
    /\ pairing[kind].calls < MaxPairCalls
    /\ LET r == intervals(interval_cache[kind], detect_frames[kind])
       IN  /\ interval_cache' = [interval_cache EXCEPT ![kind] = r.cached]
           /\ pairing' = [pairing EXCEPT ![kind] = [calls |-> @.calls + 1,
                                                    raised |-> r.raised,
                                                    returned |-> r.returned]]
    /\ UNCHANGED <<detect_frames, planVars, fsVars, runVars, callVars>>
    /\ UNCHANGED <<parseVars, matchVars, storeVars>>

black_intervals == GetIntervals("black")

silent_intervals == GetIntervals("silence")

NextPair == black_intervals \/ silent_intervals

SpecPair == InitPair /\ [][NextPair]_vars

\* ---------------------------------------------------------------- claims of the interval pairing
\* the events are Start, End, Start, End, ...: every Start is followed by an
\* End and nothing else is there
AlternatesStartEnd(detected) ==
    /\ Len(detected) % 2 = 0
    /\ \A i \in 1..Len(detected) :
            detected[i].sub_type = (IF i % 2 = 1 THEN "start" ELSE "end")

\* C10: pairing the events of one kind succeeds only when they are Start,
\* End, Start, End, ...; for any other sequence, a trailing Start without its
\* End included, the call raises and no intervals are returned or cached.
C10_UnpairedEventRaises ==
    \A kind \in Kinds :
        pairing[kind].calls > 0 =>
            IF AlternatesStartEnd(detect_frames[kind])
            THEN ~pairing[kind].raised /\ ~IsNone(pairing[kind].returned)
            ELSE /\ pairing[kind].raised
                 /\ IsNone(pairing[kind].returned)
                 /\ IsNone(interval_cache[kind])

\* ---------------------------------------------------------------- SpecParse
\* Media.frames over an analysis output of up to MaxLines lines.
FrameLine == <<"F">>

SampleLines ==
    {<<>>, <<"s">>, FrameLine, <<"s", "F", "s">>, <<"F", "a">>,
     <<"a", ".", "a", "_", "a", "=", "a">>, <<"a", ".", "a", "=", "a">>,
     <<"a", ".", "a", "=", "a", "a">>, <<"a", "=", "a">>, <<"a">>}

InitParse ==
    /\ IdleFs /\ IdleRun /\ IdlePlan /\ IdleCalls /\ IdlePair /\ IdleMatch /\ IdleStore
    /\ ffmpeg_output \in SeqsUpTo(SampleLines, MaxLines)
    /\ frames_cache = None
    /\ parse_raised = FALSE

\* a read of the property Media.frames
ParseFrames ==
    /\ LET r == media_frames(frames_cache, ffmpeg_output)
       IN  /\ frames_cache' = r.cached
           /\ parse_raised' = r.raised
    /\ UNCHANGED <<ffmpeg_output, planVars, fsVars, runVars, callVars, pairVars, matchVars,
                   storeVars>>

NextParse == ParseFrames

SpecParse == InitParse /\ [][NextParse]_vars

\* ---------------------------------------------------------------- SpecKeyLine
\* Media.frames over a frame line followed by one line of up to MaxLineLen
\* characters.
KeyChars == {"a", ".", "_", "="}

InitKeyLine ==
    /\ IdleFs /\ IdleRun /\ IdlePlan /\ IdleCalls /\ IdlePair /\ IdleMatch /\ IdleStore
    /\ \E line \in SeqsUpTo(KeyChars, MaxLineLen) : ffmpeg_output = <<FrameLine, line>>
    /\ frames_cache = None
    /\ parse_raised = FALSE

SpecKeyLine == InitKeyLine /\ [][NextParse]_vars

\* ---------------------------------------------------------------- claims of the detection parser
\* Media.frames has been read
Parsed == parse_raised \/ ~IsNone(frames_cache)

StrippedLines == [i \in 1..Len(ffmpeg_output) |-> strip(ffmpeg_output[i])]

IsBlank(line) == line = <<>>

MatchesNeither(line) == ~is_frame_line(line) /\ IsNone(match_key_line(line))

\* the lines that are not blank, in order
RECURSIVE NonBlank(_)
NonBlank(lines) ==
    IF lines = <<>> THEN <<>>
    ELSE IF IsBlank(Head(lines)) THEN NonBlank(Tail(lines))
         ELSE <<Head(lines)>> \o NonBlank(Tail(lines))

\* C11: a non-blank line that matches neither pattern makes parsing fail and
\* nothing is produced or cached; when every non-blank line matches one of
\* the two patterns and the other rules of the protocol hold (every key line
\* follows a frame line, no key twice in a frame), parsing succeeds.
C11_OnlyUnmatchedNonBlankLinesFail ==
    Parsed =>
        /\ (\E i \in 1..Len(StrippedLines) :
                ~IsBlank(StrippedLines[i]) /\ MatchesNeither(StrippedLines[i]))
                => (parse_raised /\ IsNone(frames_cache))
        /\ ~parse_lines(NonBlank(StrippedLines), 1, <<>>, None).raised => ~parse_raised

\* a name: one or more characters that are none of ". _ ="
Names == {[i \in 1..n |-> "a"] : n \in 1..MaxLineLen}

\* [filter.]type[_subtype]=value, each part a name
WellFormedKeyLine(line) ==
    \E filter \in {<<>>} \cup {n \o <<".">> : n \in Names},
       sub_type \in {<<>>} \cup {<<"_">> \o n : n \in Names},
       type \in Names, value \in Names :
        line = filter \o type \o sub_type \o <<"=">> \o value

\* C12: the text key=value rebuilt from every parsed well-formed key line,
\* with or without a filter prefix, with or without a subtype suffix, is the
\* key line itself.
C12_KeyLineRoundTrips ==
    ~IsNone(frames_cache) =>
        \A i \in 1..Len(Get(frames_cache)) :
            \A k \in DOMAIN Get(frames_cache)[i].metadata :
                LET metadata == Get(frames_cache)[i].metadata[k]
                IN  WellFormedKeyLine(metadata.raw) => metadata_str(metadata) = metadata.raw

\* line i of the stripped output is a frame line
IsFrameLine(i) == is_frame_line(StrippedLines[i])

\* line i of the stripped output is a key line
IsKeyLine(i) == ~IsFrameLine(i) /\ ~IsNone(match_key_line(StrippedLines[i]))

\* the filter name, field type and field subtype of key line i
KeyParts(i) ==
    LET groups == Get(match_key_line(StrippedLines[i]))
    IN  <<groups.filter, groups.type, groups.sub_type>>

\* the frame line that key line i belongs to: the last one before it (0: none)
FrameLineOf(i) ==
    LET before == {j \in 1..i : IsFrameLine(j)}
    IN  IF before = {} THEN 0 ELSE CHOOSE j \in before : \A l \in before : l <= j

\* key lines i < j of one frame turn that produce the same key
SameKeyInTurn(i, j) ==
    /\ i < j /\ IsKeyLine(i) /\ IsKeyLine(j)
    /\ FrameLineOf(i) = FrameLineOf(j)
    /\ KeyParts(i) = KeyParts(j)

\* every line is a frame line or a key line, and the first line is a frame line
FramesThenKeys ==
    /\ \A i \in 1..Len(StrippedLines) : IsFrameLine(i) \/ IsKeyLine(i)
    /\ StrippedLines # <<>> => IsFrameLine(1)

\* C21: two key lines of one frame turn with the same key make parsing fail,
\* and no frame list is produced or cached (the earlier value is not
\* overwritten); an output of frame lines and key lines that starts with a
\* frame line and repeats no key within a frame turn is accepted, the same
\* key under two different frame lines included.
C21_DuplicateKeyInFrameFails ==
    Parsed =>
        /\ (\E i, j \in 1..Len(StrippedLines) : SameKeyInTurn(i, j))
                => (parse_raised /\ IsNone(frames_cache))
        /\ (FramesThenKeys /\ ~\E i, j \in 1..Len(StrippedLines) : SameKeyInTurn(i, j))
                => ~parse_raised

\* parsing failed on the second of two key lines of one frame that give two
\* values to one key, and on nothing else
C21_Witness ==
    /\ parse_raised
    /\ FramesThenKeys
    /\ \E i, j \in 1..Len(StrippedLines) :
            SameKeyInTurn(i, j) /\ StrippedLines[i] # StrippedLines[j]

\* an accepted output with the same key under two different frame lines
C21_SameKeyInTwoFrames ==
    /\ ~IsNone(frames_cache)
    /\ \E i, j \in 1..Len(StrippedLines) :
            /\ i < j /\ IsKeyLine(i) /\ IsKeyLine(j)
            /\ FrameLineOf(i) # FrameLineOf(j)
            /\ KeyParts(i) = KeyParts(j)

\* the positions of the frame lines of the stripped output, in order
RECURSIVE FrameLinesFrom(_)
FrameLinesFrom(i) ==
    IF i > Len(StrippedLines) THEN <<>>
    ELSE IF IsFrameLine(i) THEN <<i>> \o FrameLinesFrom(i + 1)
         ELSE FrameLinesFrom(i + 1)

\* the key lines of the frame turn that frame line f opens
KeyLinesOf(f) == {i \in 1..Len(StrippedLines) : IsKeyLine(i) /\ FrameLineOf(i) = f}

\* C22: an output that parses without error gives one FrameRecord per frame
\* line, in input order, the last frame line included, and the metadata of
\* each record is exactly the key lines between its frame line and the next
\* frame line or the end of the input.
C22_OneRecordPerFrameLine ==
    ~IsNone(frames_cache) =>
        LET records == Get(frames_cache)
            frame_lines == FrameLinesFrom(1)
        IN  /\ Len(records) = Len(frame_lines)
            /\ \A n \in 1..Len(frame_lines) :
                /\ records[n].raw = StrippedLines[frame_lines[n]]
                /\ {records[n].metadata[k].raw : k \in DOMAIN records[n].metadata}
                        = {StrippedLines[i] : i \in KeyLinesOf(frame_lines[n])}
                /\ Cardinality(DOMAIN records[n].metadata)
                        = Cardinality(KeyLinesOf(frame_lines[n]))

\* two frames were parsed, each with a key line, the last one closed by the
\* end of the input
C22_Witness ==
    /\ ~IsNone(frames_cache)
    /\ Len(Get(frames_cache)) = 2
    /\ \A n \in 1..2 : DOMAIN Get(frames_cache)[n].metadata # {}
    /\ IsKeyLine(Len(StrippedLines))

\* C29: a key line that no frame line precedes makes parsing fail and no
\* frame list is produced or cached; in a parsed output every key line
\* belongs to a frame line before it.
C29_KeyLineBeforeFrameFails ==
    Parsed =>
        /\ (\E i \in 1..Len(StrippedLines) : IsKeyLine(i) /\ FrameLineOf(i) = 0)
                => (parse_raised /\ IsNone(frames_cache))
        /\ ~IsNone(frames_cache) =>
                \A i \in 1..Len(StrippedLines) : IsKeyLine(i) => FrameLineOf(i) # 0

\* parsing failed on an output whose first line is a key line and whose
\* other lines are a frame line and its key lines
C29_Witness ==
    /\ parse_raised
    /\ Len(StrippedLines) >= 2
    /\ IsKeyLine(1)
    /\ IsFrameLine(2)
    /\ \A i \in 3..Len(StrippedLines) : IsKeyLine(i)
    /\ ~\E i, j \in 1..Len(StrippedLines) : SameKeyInTurn(i, j)

\* ---------------------------------------------------------------- SpecMatch
\* Media.split_points over black and silence intervals whose timestamps
\* ascend along each list, as the pairing of events detected in time order
\* leaves them; then the start frame of every split point, as Media.split of
\* src/media.py computes it.
MatchTimestamps == {2 * k : k \in 0..MaxMatchTime}

MatchIntervals ==
    {DetectInterval(DetectMetadata("start", st), DetectMetadata("end", et)) :
        <<st, et>> \in {p \in MatchTimestamps \X MatchTimestamps : p[1] <= p[2]}}

IntervalLists ==
    {l \in SeqsUpTo(MatchIntervals, MaxIntervals) :
        \A i \in 1..(Len(l) - 1) : l[i].end.timestamp <= l[i + 1].start.timestamp}

InitMatch ==
    /\ IdleFs /\ IdleRun /\ IdlePlan /\ IdleCalls /\ IdlePair /\ IdleParse /\ IdleStore
    /\ black_list \in IntervalLists
    /\ silent_list \in IntervalLists
    /\ match_result = None
    /\ cut_frames = None

\* a read of the property Media.split_points
MatchSplitPoints ==
    /\ IsNone(match_result)
    /\ match_result' = Some(match_split_points(black_list, silent_list))
    /\ UNCHANGED <<black_list, silent_list, cut_frames>>
    /\ UNCHANGED <<planVars, fsVars, runVars, callVars, pairVars, parseVars, storeVars>>

\* frame_start = split_frame.adjusted_start_frame(self.video_fps), for every
\* split point, at a video of 1 to MaxFps frames per second
SplitFrames ==
    /\ ~IsNone(match_result)
    /\ IsNone(cut_frames)
    /\ \E f \in 1..MaxFps :
        LET video_fps == [num |-> f, den |-> 4]
            sps == Get(match_result).split_points
        IN  cut_frames' = Some([video_fps |-> video_fps,
                                frames |-> [n \in 1..Len(sps) |->
                                              adjusted_start_frame(sps[n], video_fps)]])
    /\ UNCHANGED <<black_list, silent_list, match_result>>
    /\ UNCHANGED <<planVars, fsVars, runVars, callVars, pairVars, parseVars, storeVars>>

NextMatch == MatchSplitPoints \/ SplitFrames

SpecMatch == InitMatch /\ [][NextMatch]_vars

\* ---------------------------------------------------------------- claims of the matcher
Matched == ~IsNone(match_result)

MatchPairs == Get(match_result).pairs

MatchedSplitPoints == Get(match_result).split_points

\* the silences consumed by the split points of the black intervals before b
ConsumedBefore(b) ==
    {MatchPairs[n][2] : n \in {m \in 1..Len(MatchPairs) : MatchPairs[m][1] < b}}

IsPaired(b) == \E n \in 1..Len(MatchPairs) : MatchPairs[n][1] = b

\* C13: overlaps gives the same answer whichever of the two intervals it is
\* called on.
C13_OverlapsSymmetric ==
    Matched =>
        \A b \in 1..Len(black_list), sl \in 1..Len(silent_list) :
            overlaps(black_list[b], silent_list[sl]) = overlaps(silent_list[sl], black_list[b])

\* C14: a black interval that overlaps none of the silences still unconsumed
\* when its turn comes gives no split point and consumes no silence: the
\* silences left at the end are exactly those of no split point; without
\* silences there is no split point.
C14_UnmatchedBlackDiscarded ==
    Matched =>
        /\ \A b \in 1..Len(black_list) :
                (\A sl \in (1..Len(silent_list)) \ ConsumedBefore(b) :
                    ~overlaps(black_list[b], silent_list[sl]))
                => ~IsPaired(b)
        /\ Len(MatchedSplitPoints) = Len(MatchPairs)
        /\ Len(Get(match_result).unconsumed) + Len(MatchPairs) = Len(silent_list)
        /\ \A i \in 1..Len(Get(match_result).unconsumed) :
                \A n \in 1..Len(MatchPairs) :
                    MatchPairs[n][2] # Get(match_result).unconsumed[i]
        /\ silent_list = <<>> => MatchedSplitPoints = <<>>

\* the first black interval is discarded while a silence is there, which the
\* second black interval then takes
C14_Witness ==
    /\ Matched
    /\ Len(black_list) = 2
    /\ Len(silent_list) = 2
    /\ MatchPairs = <<<<2, 2>>>>
    /\ Get(match_result).unconsumed = <<1>>

\* C15: the start frame of every split point is round(fps x mean of the
\* start and end timestamps of its silence).
C15_FrameIsRoundedMean ==
    ~IsNone(cut_frames) =>
        \A n \in 1..Len(MatchedSplitPoints) :
            Get(cut_frames).frames[n] =
                fps_adjusted_frame(average_start_timestamp(MatchedSplitPoints[n]),
                                   Get(cut_frames).video_fps)

\* C18: the split points are in ascending order of the start of their
\* silence, and of the mean timestamp of their silence.
C18_SplitPointsAscend ==
    Matched =>
        \A n \in 1..(Len(MatchedSplitPoints) - 1) :
            /\ MatchedSplitPoints[n].silent_frame.start.timestamp
                    <= MatchedSplitPoints[n + 1].silent_frame.start.timestamp
            /\ average_start_timestamp(MatchedSplitPoints[n])
                    <= average_start_timestamp(MatchedSplitPoints[n + 1])

\* two split points, the first black interval overlapping both silences
C18_Witness ==
    /\ Matched
    /\ Len(MatchedSplitPoints) = 2
    /\ overlaps(black_list[1], silent_list[2])
    /\ MatchedSplitPoints[1].silent_frame.start.timestamp
            < MatchedSplitPoints[2].silent_frame.start.timestamp

\* the two intervals have no instant in common
Disjoint(a, b) ==
    a.start.timestamp > b.end.timestamp \/ a.end.timestamp < b.start.timestamp

EdgesWithinTolerance(a, b) ==
    \/ Abs(a.start.timestamp - b.start.timestamp) <= tolerance
    \/ Abs(a.end.timestamp - b.end.timestamp) <= tolerance

\* C19: a black interval overlaps a silence exactly when it lies inside it,
\* or else when the two are not disjoint and their starts or their ends are
\* within the tolerance; disjoint intervals never overlap.
C19_OverlapRule ==
    Matched =>
        \A b \in 1..Len(black_list), sl \in 1..Len(silent_list) :
            LET bi == black_list[b]
                si == silent_list[sl]
                inside == bi.start.timestamp >= si.start.timestamp
                          /\ bi.end.timestamp <= si.end.timestamp
            IN  /\ overlaps(bi, si)
                    <=> (inside \/ (~Disjoint(bi, si) /\ EdgesWithinTolerance(bi, si)))
                /\ Disjoint(bi, si) => ~overlaps(bi, si)

\* a black interval and a silence half a second apart give no split point
C19_Witness ==
    /\ Matched
    /\ Len(black_list) = 1
    /\ Len(silent_list) = 1
    /\ Disjoint(black_list[1], silent_list[1])
    /\ EdgesWithinTolerance(black_list[1], silent_list[1])
    /\ MatchedSplitPoints = <<>>

\* C20: black intervals are taken in list order, each paired with the first
\* silence not yet consumed that it overlaps; no black interval and no
\* silence is in two split points, every pair overlaps, and there are at
\* most min(#black, #silence) split points.
C20_FirstUnconsumedOverlap ==
    Matched =>
        /\ \A n \in 1..(Len(MatchPairs) - 1) : MatchPairs[n][1] < MatchPairs[n + 1][1]
        /\ \A n, m \in 1..Len(MatchPairs) : n # m => MatchPairs[n][2] # MatchPairs[m][2]
        /\ \A n \in 1..Len(MatchPairs) :
                LET b == MatchPairs[n][1]
                    sl == MatchPairs[n][2]
                IN  /\ b \in 1..Len(black_list)
                    /\ sl \in 1..Len(silent_list)
                    /\ MatchedSplitPoints[n] = SplitMetadata(black_list[b], silent_list[sl])
                    /\ overlaps(black_list[b], silent_list[sl])
                    /\ sl \notin ConsumedBefore(b)
                    /\ \A earlier \in (1..(sl - 1)) \ ConsumedBefore(b) :
                            ~overlaps(black_list[b], silent_list[earlier])
        /\ \A b \in 1..Len(black_list) :
                (\E sl \in (1..Len(silent_list)) \ ConsumedBefore(b) :
                    overlaps(black_list[b], silent_list[sl]))
                => IsPaired(b)
        /\ Len(MatchPairs) <= Len(black_list)
        /\ Len(MatchPairs) <= Len(silent_list)

\* the second black interval overlaps both silences and gets the second, the
\* first being consumed
C20_Witness ==
    /\ Matched
    /\ MatchPairs = <<<<1, 1>>, <<2, 2>>>>
    /\ overlaps(black_list[2], silent_list[1])

\* ---------------------------------------------------------------- claims of the encode driver
\* the file that was being processed has just ended with this result
Ended(result) ==
    /\ pc \in {"next_file", "finished"}
    /\ outcomes # <<>>
    /\ outcomes[Len(outcomes)].result = result

\* every clip of the plan had its final file when the run of the file began
AllOutputsPresent ==
    planned /\ \A n \in 0..(Len(plan) - 1) : start_final[n] # "absent"

\* C3: a run of Media.split over a plan whose final files all exist starts
\* no transcoder and makes no hard link (nor removes or renames a file).
C3_ResumeDoesNothing ==
    AllOutputsPresent =>
        /\ stats.transcodes = 0
        /\ stats.links = 0
        /\ stats.removes = 0
        /\ stats.renames = 0
        /\ proc.state = "none"
        /\ final = start_final

\* the second run of the same file, over the three clips the first run made
C3_Witness ==
    /\ Ended("ok")
    /\ Len(outcomes) = 2
    /\ outcomes[1].stats.transcodes = 3
    /\ Len(plan) = 3
    /\ \A n \in 0..2 : start_final[n] = "complete"

\* C4: a final file made by transcoding exists only once the transcoder of
\* that clip has exited with code 0 and its .incomplete file was renamed; a
\* crashed or failed transcode leaves no final file, whatever the state.
C4_RenameIsCommit ==
    \A n \in ClipFiles :
        /\ final[n] \in {"absent", "present", "link", "complete"}
        /\ (final[n] # start_final[n] /\ final[n] # "link") =>
                /\ final[n] = "complete"
                /\ stats.exits[n] = 0
                /\ stats.renames >= 1
                /\ incomplete[n] = "absent"
        /\ (stats.exits[n] = 1 \/ (pc = "crashed" /\ n = clip_index /\ stats.renames <= n
                                      /\ proc.state # "none" /\ stats.exits[n] # 0))
                => final[n] = start_final[n]

\* a crash in the middle of the second transcode, the first clip being committed
C4_Witness ==
    /\ pc = "crashed"
    /\ clip_index = 1
    /\ proc.state = "running"
    /\ incomplete[1] = "partial"
    /\ final[1] = "absent"
    /\ final[0] = "complete"
    /\ start_final[0] = "absent"

\* C5: a file whose name differs from the one the output directory records
\* never gets past the check of .media: it ends with the conflict error, with
\* no prober, analyzer or transcoder run and no clip file touched.
C5_ConflictBeforeAnyWork ==
    /\ pc \in {"media_init", "plan", "clip_check", "clip_encode", "transcoding", "rename",
                "save_info"}
            => media_id = batch[file_index]
    /\ \A i \in 1..Len(outcomes) :
            (media_id \notin {"none", outcomes[i].file} /\ outcomes[i].result # "skipped") =>
                /\ outcomes[i].result = "conflict"
                /\ outcomes[i].stats = ZeroStats
                /\ ~outcomes[i].touched

\* the directory records A; A is split into clips, then B ends in the conflict
C5_Witness ==
    /\ batch = <<"A", "B">>
    /\ media_id = "A"
    /\ Len(outcomes) = 2
    /\ outcomes[1].result = "ok"
    /\ outcomes[1].stats.transcodes >= 1
    /\ outcomes[2].result = "conflict"

\* C6: over a plan of exactly one clip no transcoder is ever started; the
\* output 000 is made, when it is made, by a hard link to the source, and it
\* is made whenever it was absent and the run ends without error.
C6_WholeFileIsLinked ==
    (planned /\ Len(plan) = 1) =>
        /\ stats.transcodes = 0
        /\ proc.state = "none"
        /\ pc \notin {"transcoding", "rename"}
        /\ final[0] # start_final[0] => (final[0] = "link" /\ stats.links = 1)
        /\ (Ended("ok") /\ start_final[0] = "absent") => final[0] = "link"

\* a file without split points, linked as 000 by a run that ended well
C6_Witness ==
    /\ Ended("ok")
    /\ planned
    /\ split_points = <<>>
    /\ Len(plan) = 1
    /\ start_final[0] = "absent"
    /\ final[0] = "link"
    /\ ~dry_run

\* C8: once every clip of the plan was attempted, info.yaml holds the name of
\* the media file and exactly one entry for each planned clip file, with the
\* bounds of that clip, whether the clip was skipped, linked or transcoded.
C8_ManifestListsEveryClip ==
    Ended("ok") =>
        manifest = Some([media |-> outcomes[Len(outcomes)].file,
                         clips |-> [n \in 0..(Len(plan) - 1) |-> clip_info(plan[n + 1])]])

\* a run that skipped clip 000 and transcoded clip 001
C8_Witness ==
    /\ Ended("ok")
    /\ Len(plan) >= 2
    /\ start_final[0] = "present"
    /\ start_final[1] = "absent"
    /\ final[1] = "complete"
    /\ plan[1] # plan[2]

\* C16: a dry run changes no clip file of the output directory: it starts
\* no transcoder, makes no hard link, removes no .incomplete file and renames
\* nothing.
C16_DryRunChangesNothing ==
    dry_run =>
        /\ stats.transcodes = 0
        /\ stats.links = 0
        /\ stats.removes = 0
        /\ stats.renames = 0
        /\ final = start_final
        /\ incomplete = start_incomplete

\* C23: at the step that starts the transcoder of a clip there is no
\* .incomplete file of that clip; a clip whose final file is absent and whose
\* .incomplete file exists leaves the check of the clip with that file removed.
C23_StaleIncompleteRemovedFirst ==
    [][/\ (proc.state # "running" /\ proc'.state = "running")
            => (incomplete[clip_index] = "absent" /\ final[clip_index] = "absent")
       /\ (pc = "clip_check" /\ pc' = "clip_encode")
            => (final[clip_index] = "absent" /\ incomplete'[clip_index] = "absent")]_vars

\* the transcoder of a clip runs, the stale .incomplete file the run found
\* for that clip having been removed
C23_Witness ==
    /\ pc = "transcoding"
    /\ proc.state = "running"
    /\ start_incomplete[clip_index] = "stale"
    /\ incomplete[clip_index] = "absent"
    /\ stats.removes >= 1

\* C24: the clips of one file are taken one by one in plan order: a
\* transcoder runs only while the driver waits for it, a transcoder is
\* started only when none runs and every earlier clip of the plan has its
\* final file (it was skipped, or transcoded and renamed), and the position
\* in the plan moves one clip at a time.
C24_OneClipAtATime ==
    /\ [](proc.state = "running" => pc \in {"transcoding", "crashed"})
    /\ [][/\ (pc # "transcoding" /\ pc' = "transcoding")
                => /\ proc.state # "running"
                   /\ proc'.state = "running"
                   /\ clip_index < Len(plan)
                   /\ \A n \in 0..(clip_index - 1) : final[n] # "absent"
          /\ (clip_index' # clip_index /\ pc' # "next_file" /\ pc # "next_file")
                => /\ clip_index' = clip_index + 1
                   /\ pc # "transcoding"]_vars

\* the transcoder of the third clip runs after the first clip was skipped
\* and the second was transcoded and renamed
C24_Witness ==
    /\ pc = "transcoding"
    /\ proc.state = "running"
    /\ clip_index = 2
    /\ start_final[0] = "present"
    /\ start_final[1] = "absent"
    /\ final[1] = "complete"

\* C25: the .incomplete file of a transcoded clip is renamed only after the
\* child has exited and the readers of its stdout and of its stderr have both
\* reached the end of their stream, in whatever order the three happen.
C25_RenameAfterJoin ==
    /\ [](pc = "rename" => (/\ proc.state = "exited"
                            /\ proc.stdout_eof
                            /\ proc.stderr_eof
                            /\ proc.returncode = 0))
    /\ [][\A n \in ClipFiles :
            (final'[n] # final[n] /\ final'[n] # "link")
                => (/\ n = clip_index
                    /\ proc.state = "exited"
                    /\ proc.stdout_eof
                    /\ proc.stderr_eof)]_vars

\* a clip was committed by a rename after its transcoder had exited and both
\* streams had ended
C25_Witness ==
    /\ stats.renames >= 1
    /\ final[0] = "complete"
    /\ start_final[0] = "absent"
    /\ proc.state = "exited"
    /\ proc.stdout_eof
    /\ proc.stderr_eof

\* the child has exited while both of its streams are still being read
C25_ExitBeforeStreamsEnd ==
    /\ pc = "transcoding"
    /\ proc.state = "exited"
    /\ ~proc.stdout_eof
    /\ ~proc.stderr_eof

\* both streams have ended while the child still runs
C25_StreamsEndBeforeExit ==
    /\ pc = "transcoding"
    /\ proc.state = "running"
    /\ proc.stdout_eof
    /\ proc.stderr_eof

\* C26: a file of the batch that ends with an error ends alone: the files
\* are taken in batch order, each file that was begun has one outcome, the
\* batch is finished only when every file has its outcome, and no logging
\* handler of a file is left when the next file starts or the batch ends.
C26_ErrorEndsOneFileOnly ==
    /\ \A i \in 1..Len(outcomes) : outcomes[i].file = batch[i]
    /\ pc = "finished" => (Len(outcomes) = Len(batch) /\ handlers = 0)
    /\ pc = "next_file" =>
            /\ file_index = Len(outcomes) + 1
            /\ file_index <= Len(batch)
            /\ handlers = 0
    /\ pc \notin {"finished", "next_file"} => Len(outcomes) = file_index - 1

\* the first file failed in its transcoder, after its log handler was added,
\* and the second file was then processed to its end
C26_Witness ==
    /\ pc = "finished"
    /\ Len(outcomes) = 2
    /\ outcomes[1].result = "process_error"
    /\ outcomes[1].stats.transcodes >= 1
    /\ outcomes[2].result = "ok"
    /\ handlers = 0

\* the transcoder of some clip has exited with a non-zero code in the run of
\* the current file
TranscoderFailed == \E n \in ClipFiles : stats.exits[n] = 1

\* C27: once the transcoder of clip k has exited non-zero, the run of the
\* file stops: clip k is not renamed and gets no final file, no transcoder
\* is started again in that run (neither for a later clip nor for clip k),
\* the run writes no manifest, and it ends with the error.
C27_FailedTranscodeStopsFile ==
    /\ [](TranscoderFailed =>
            /\ pc \in {"transcoding", "next_file", "finished", "crashed"}
            /\ \A n \in ClipFiles :
                stats.exits[n] = 1 =>
                    /\ final[n] = "absent"
                    /\ incomplete[n] # "complete"
                    /\ \A later \in ClipFiles : later > n => stats.exits[later] = -1
                    /\ pc = "transcoding" => (clip_index = n /\ proc.state = "exited")
            /\ stats.transcodes = Cardinality({n \in ClipFiles : stats.exits[n] # -1})
            /\ pc \in {"next_file", "finished"}
                    => outcomes[Len(outcomes)].result = "process_error")
    /\ [][TranscoderFailed =>
            /\ manifest' = manifest
            /\ final' = final
            /\ proc'.state # "running"
            /\ stats'.transcodes <= stats.transcodes
            /\ stats'.renames <= stats.renames]_vars

\* the run of a file has ended after the transcoder of its second clip
\* exited non-zero, the first clip being committed
C27_Witness ==
    /\ Ended("process_error")
    /\ stats.exits[0] = 0
    /\ stats.exits[1] = 1
    /\ final[0] = "complete"
    /\ final[1] = "absent"
    /\ Len(plan) = 3

\* a run that was not a dry run has ended without error
CompletedRun == Ended("ok") /\ ~dry_run

\* every planned clip has its final file and none has an .incomplete file
AllClipsCommitted ==
    \A n \in 0..(Len(plan) - 1) : final[n] # "absent" /\ incomplete[n] = "absent"

\* C28 as stated: from any output directory, any subset of final files and
\* .incomplete files present, a completed run leaves the final file of every
\* planned clip and no .incomplete file of a planned clip.
C28_CompletedRunLeavesOnlyFinals == CompletedRun => AllClipsCommitted

\* C28 amended: the same, from any output directory in which no planned clip
\* has both its final file and an .incomplete file; an .incomplete file next
\* to an existing final file is left where it is, the clip being skipped.
C28_CompletedRunLeavesOnlyFinals_Amended ==
    (CompletedRun /\ \A n \in 0..(Len(plan) - 1) :
                        ~(start_final[n] # "absent" /\ start_incomplete[n] # "absent"))
        => AllClipsCommitted

\* a completed run over three clips: the first was present, the second had a
\* stale .incomplete file, the third had nothing
C28_Witness ==
    /\ CompletedRun
    /\ Len(plan) = 3
    /\ start_final = (0 :> "present" @@ 1 :> "absent" @@ 2 :> "absent")
    /\ start_incomplete = (0 :> "absent" @@ 1 :> "stale" @@ 2 :> "absent")
    /\ AllClipsCommitted

has_cr(text) == \E i \in 1..Len(text) : text[i] = "CR"

Keys == {"a", "b"}

StoredValues == {Leaf(v) : v \in {"0", "''", "[]", "False", "1", "'x'"}}

KeyPaths ==
    {[kind |-> "list", keys |-> p] : p \in SeqsUpTo(Keys, MaxDepth) \ {<<>>}}
        \cup {[kind |-> "key", key |-> k] : k \in Keys}

InitStore ==
    /\ IdleFs /\ IdleRun /\ IdlePlan /\ IdleCalls /\ IdlePair /\ IdleParse /\ IdleMatch
    /\ cache_data = Dict(<<>>)
    /\ access = NoAccess
    /\ accesses = 0

\* cache[key_path] = value
SetItem ==
    /\ accesses < MaxAccesses
    /\ \E key_path \in KeyPaths, value \in StoredValues :
        LET r == set_item(cache_data, normalize_key_path(key_path), value)
        IN  /\ cache_data' = r.node
            /\ access' = [NoAccess EXCEPT !.op = "set",
                                          !.key_path = normalize_key_path(key_path),
                                          !.value = value, !.raised = r.raised,
                                          !.before = cache_data]
    /\ accesses' = accesses + 1
    /\ UNCHANGED <<planVars, fsVars, runVars, callVars, pairVars, parseVars, matchVars>>

\* del cache[key_path]
DelItem ==
    /\ accesses < MaxAccesses
    /\ \E key_path \in KeyPaths :
        LET r == del_item(cache_data, normalize_key_path(key_path))
        IN  /\ cache_data' = r.node
            /\ access' = [NoAccess EXCEPT !.op = "del",
                                          !.key_path = normalize_key_path(key_path),
                                          !.raised = r.raised, !.before = cache_data]
    /\ accesses' = accesses + 1
    /\ UNCHANGED <<planVars, fsVars, runVars, callVars, pairVars, parseVars, matchVars>>

\* cache[key_path]
GetItem ==
    /\ accesses < MaxAccesses
    /\ \E key_path \in KeyPaths :
        LET r == get_item(cache_data, normalize_key_path(key_path))
        IN  access' = [NoAccess EXCEPT !.op = "get",
                                       !.key_path = normalize_key_path(key_path),
                                       !.raised = r.raised, !.returned = r.returned,
                                       !.before = cache_data]
    /\ accesses' = accesses + 1
    /\ UNCHANGED <<cache_data, planVars, fsVars, runVars, callVars, pairVars, parseVars,
                   matchVars>>

\* key_path in cache
Contains ==
    /\ accesses < MaxAccesses
    /\ \E key_path \in KeyPaths :
        LET r == contains(cache_data, normalize_key_path(key_path))
        IN  access' = [NoAccess EXCEPT !.op = "in",
                                       !.key_path = normalize_key_path(key_path),
                                       !.raised = r.raised, !.found = r.found,
                                       !.before = cache_data]
    /\ accesses' = accesses + 1
    /\ UNCHANGED <<cache_data, planVars, fsVars, runVars, callVars, pairVars, parseVars,
                   matchVars>>

NextStore ==
    \/ SetItem
    \/ DelItem
    \/ GetItem
    \/ Contains

SpecStore == InitStore /\ [][NextStore]_vars

\* ---------------------------------------------------------------- claims of the nested cache
\* neither path is the beginning of the other
Siblings(p, q) ==
    \E i \in 1..Len(p) : i <= Len(q) /\ p[i] # q[i]

\* what is stored under path q: the value, or the error of looking it up
Stored(node, q) ==
    LET r == follow_key(node, q)
    IN  IF r.raised = "none" THEN r ELSE [raised |-> r.raised]

\* what lies under every sibling of the path last written or deleted is what
\* it was before
SiblingsUnchanged ==
    \A q \in SeqsUpTo(Keys, MaxDepth) \ {<<>>} :
        Siblings(access.key_path, q) =>
            Stored(cache_data, q) = Stored(access.before, q)

====
